---- MODULE Spec2Model ----
(***************************************************************************)
(* DishList: a potluck sign-up application.  The model covers the config   *)
(* store (src/app/config.py), the SQLite persistence layer                 *)
(* (src/app/storage.py) and the request handlers (src/app/main.py).        *)
(*                                                                         *)
(* Text is modelled as a sequence of atoms: the atom " " is white space,   *)
(* every other atom is a run of non-blank characters.  An optional value   *)
(* (Python's None or a value) is the empty sequence or a one-element       *)
(* sequence.                                                               *)
(***************************************************************************)
EXTENDS Integers, Sequences, FiniteSets, TLC

VARIABLES
    db,       \* the SQLite database: its tables and AUTOINCREMENT counters
    file,     \* data/config.json: <<>> or <<[data, mtime]>>
    cached,   \* app.state.config: <<>> before startup, else <<config>>
    now,      \* the wall clock, in ticks of UTC time
    tz,       \* the server's local-time offset from UTC, in ticks
    running,  \* whether the startup hook has run
    last,     \* the last call or request and its outcome
    procs     \* create_tag calls in flight: their position and locals

vars == <<db, file, cached, now, tz, running, last, procs>>

----------------------------------------------------------------------------
(* Bounds of the model.                                                    *)

\* Addresses are AddrBits wide (the code's are 32 and 128 bits wide).
AddrBits == 3
\* The process first starts at tick 0; timestamps already on disk then lie
\* in -MaxInitTime..-1.
MaxInitTime == 2
\* Writes are modelled while the clock is at most MaxClock.
MaxClock == 4
\* AUTOINCREMENT ids handed out by the tags and the dishes table.
MaxTagId == 3
MaxDishId == 2

\* The local-time offsets of the server (UTC, west and east of it).
TzOffsets == {-2, 0, 2}

----------------------------------------------------------------------------
(* Text helpers.                                                           *)

S(w) == <<w>>

Some(x) == <<x>>
None == <<>>

SeqToSet(s) == {s[i] : i \in DOMAIN s}

RECURSIVE LStrip(_)
LStrip(s) == IF s # <<>> /\ Head(s) = " " THEN LStrip(Tail(s)) ELSE s

RECURSIVE RStrip(_)
RStrip(s) ==
    IF s # <<>> /\ s[Len(s)] = " " THEN RStrip(SubSeq(s, 1, Len(s) - 1)) ELSE s

\* str.strip()
Strip(s) == RStrip(LStrip(s))

\* The upper-case atoms and their lower-case forms.  SQLite's LOWER() folds
\* the ASCII letters only; Python's str.lower() folds every cased letter.
AsciiFold ==
    {<<"A", "a">>, <<"B", "b">>, <<"Vegan", "vegan">>,
     <<"Contains alcohol", "contains alcohol">>}
UnicodeFold == {<<"É", "é">>}

FoldWith(pairs, c) ==
    IF \E p \in pairs : p[1] = c THEN (CHOOSE p \in pairs : p[1] = c)[2] ELSE c

SqlLowerAtom(c) == FoldWith(AsciiFold, c)
PyLowerAtom(c) == FoldWith(AsciiFold \cup UnicodeFold, c)

\* The atoms in code-point order, and the order it gives text (the order of
\* Python's str comparison and of SQLite's BINARY collation).
CodeOrder ==
    <<" ", "A", "B", "Contains alcohol", "Vegan", "a", "b", "contains alcohol",
      "vegan", "É", "é">>

AtomRank(c) ==
    IF \E i \in DOMAIN CodeOrder : CodeOrder[i] = c
    THEN CHOOSE i \in DOMAIN CodeOrder : CodeOrder[i] = c
    ELSE Len(CodeOrder) + 1

RECURSIVE TextLess(_, _)
TextLess(a, b) ==
    IF b = <<>> THEN FALSE
    ELSE IF a = <<>> THEN TRUE
    ELSE IF AtomRank(Head(a)) # AtomRank(Head(b))
    THEN AtomRank(Head(a)) < AtomRank(Head(b))
    ELSE TextLess(Tail(a), Tail(b))

\* SQL LOWER(x)
SqlLower(s) == [i \in DOMAIN s |-> SqlLowerAtom(s[i])]
\* str.lower()
PyLower(s) == [i \in DOMAIN s |-> PyLowerAtom(s[i])]

\* json.dumps / json.loads of a list of strings, datetime.isoformat /
\* fromisoformat: the stored text wraps the value it was made from.
JsonDumps(l) == [json |-> l]
JsonLoads(t) == t.json
IsoFormat(t) == [iso |-> t]
FromIsoFormat(t) == t.iso

RECURSIVE Pow2(_)
Pow2(n) == IF n = 0 THEN 1 ELSE 2 * Pow2(n - 1)

----------------------------------------------------------------------------
(* IP addresses and networks (the ipaddress module as _is_ip_allowed uses  *)
(* it).  An address in text is <<version, decimal>>, a network is an       *)
(* address optionally followed by "/" and a prefix length.                 *)

IpVersions == {"v4", "v6"}
MaxAddr == Pow2(AddrBits) - 1

\* int(text): the set holding the number, empty when the text is no number
\* in 0..max.
ParseInt(a, max) == {n \in 0..max : ToString(n) = a}

TheOne(set) == CHOOSE x \in set : TRUE

AddressOf(ver, vals) ==
    IF vals = {} THEN None ELSE Some([ver |-> ver, val |-> TheOne(vals)])

\* ipaddress.ip_address(text): None stands for ValueError.
ip_address(s) ==
    IF Len(s) = 2 /\ s[1] \in IpVersions
    THEN AddressOf(s[1], ParseInt(s[2], MaxAddr))
    ELSE None

\* The network of an address and a prefix length, host bits masked off.
MaskNetwork(addr, p) ==
    [ver |-> addr.ver, base |-> addr.val - (addr.val % Pow2(AddrBits - p)),
     prefix |-> p]

NetworkOf(addr, plen) ==
    IF addr = None \/ plen = {} THEN None
    ELSE Some(MaskNetwork(addr[1], TheOne(plen)))

\* ipaddress.ip_network(text, strict=False): None stands for ValueError.
ip_network(s) ==
    IF Len(s) = 2 THEN NetworkOf(ip_address(s), {AddrBits})
    ELSE IF Len(s) = 4 /\ s[3] = "/"
    THEN NetworkOf(ip_address(SubSeq(s, 1, 2)), ParseInt(s[4], AddrBits))
    ELSE None

\* client_ip in network
InNetwork(ip, net) ==
    /\ ip.ver = net.ver
    /\ ip.val - (ip.val % Pow2(AddrBits - net.prefix)) = net.base

IpText(ver, n) == <<ver, ToString(n)>>
NetText(ver, n, p) == <<ver, ToString(n), "/", ToString(p)>>

\* "127.0.0.1" and "127.0.0.1/32" in the model's address space.
Loopback == IpText("v4", 1)
LoopbackNet == NetText("v4", 1, AddrBits)

----------------------------------------------------------------------------
(* AppConfig and the two places it is persisted.                           *)

AppConfig(dish_types, admin_networks) ==
    [dish_types |-> dish_types, admin_networks |-> admin_networks]

DefaultConfig ==
    AppConfig(<<S("Main Dish"), S("Side Dish"), S("Dessert"), S("Beverage")>>,
              <<LoopbackNet>>)

CONFIG_CATEGORY_DISH_TYPES == "dish_type"
CONFIG_CATEGORY_ADMIN_NETWORKS == "admin_network"

\* A step of the clock: every write happens at its own instant.
Tick(st) == [st EXCEPT !.now = st.now + 1]

_bulk_insert_config_entries(rows, category, values, timestamp) ==
    rows \o [i \in 1..Len(values) |->
                [category |-> category, value |-> values[i],
                 position |-> i - 1, updated_at |-> IsoFormat(timestamp)]]

\* The index of the first row in the order position ASC, id ASC, the rows
\* being kept in id order.
FirstByPosition(rows) ==
    CHOOSE i \in DOMAIN rows :
        \A j \in DOMAIN rows :
            \/ rows[i].position < rows[j].position
            \/ rows[i].position = rows[j].position /\ i <= j

RemoveAt(rows, m) == SubSeq(rows, 1, m - 1) \o SubSeq(rows, m + 1, Len(rows))

\* ORDER BY position ASC, id ASC
RECURSIVE OrderByPosition(_)
OrderFrom(rows, m) == <<rows[m]>> \o OrderByPosition(RemoveAt(rows, m))
OrderByPosition(rows) ==
    IF rows = <<>> THEN <<>> ELSE OrderFrom(rows, FirstByPosition(rows))

ConfigRows(rows, category) ==
    OrderByPosition(SelectSeq(rows, LAMBDA r : r.category = category))

SetMax(set) == CHOOSE x \in set : \A y \in set : y <= x

_latest_updated_at(rows) ==
    IF rows = <<>> THEN 0
    ELSE SetMax({FromIsoFormat(rows[i].updated_at) : i \in DOMAIN rows})

Values(rows) == [i \in DOMAIN rows |-> rows[i].value]

\* The return value of load_app_config_from_db, from the two SELECTs.
ConfigFromRows(dish_rows, admin_rows) ==
    IF dish_rows = <<>> /\ admin_rows = <<>> THEN None
    ELSE Some([config |-> AppConfig(Values(dish_rows), Values(admin_rows)),
               updated_at |-> _latest_updated_at(dish_rows \o admin_rows)])

load_app_config_from_db(d) ==
    ConfigFromRows(ConfigRows(d.config_entries, CONFIG_CATEGORY_DISH_TYPES),
                   ConfigRows(d.config_entries, CONFIG_CATEGORY_ADMIN_NETWORKS))

save_app_config_to_db(st, config) ==
    Tick([st EXCEPT !.db.config_entries =
        _bulk_insert_config_entries(
            _bulk_insert_config_entries(
                SelectSeq(@, LAMBDA r : r.category \notin
                    {CONFIG_CATEGORY_DISH_TYPES, CONFIG_CATEGORY_ADMIN_NETWORKS}),
                CONFIG_CATEGORY_DISH_TYPES, config.dish_types, st.now),
            CONFIG_CATEGORY_ADMIN_NETWORKS, config.admin_networks, st.now)])

_load_config_from_file(f) == IF f = None THEN None ELSE Some(f[1].data)

_write_config_to_file(st, config) ==
    Tick([st EXCEPT !.file = Some([data |-> config, mtime |-> st.now])])

\* datetime.fromtimestamp(st_mtime): the naive local time of the write.
_get_file_updated_at(f, offset) ==
    IF f = None THEN None ELSE Some(f[1].mtime + offset)

_is_file_newer(file_updated_at, db_updated_at) ==
    IF file_updated_at # None /\ db_updated_at # None
    THEN file_updated_at[1] > db_updated_at[1]
    ELSE file_updated_at # None /\ db_updated_at = None

Loaded(st, config) == [st |-> st, config |-> config]

\* The body of load_config after its reads: db_entry is what
\* _load_config_from_db returned, file_config what _load_config_from_file
\* returned.
Reconcile(st, db_entry, file_config, file_updated_at) ==
    IF file_config # None /\ db_entry # None
    THEN IF _is_file_newer(file_updated_at, Some(db_entry[1].updated_at))
         THEN Loaded(IF file_config[1] # db_entry[1].config
                     THEN save_app_config_to_db(st, file_config[1]) ELSE st,
                     file_config[1])
         ELSE Loaded(IF file_config[1] # db_entry[1].config
                     THEN _write_config_to_file(st, db_entry[1].config) ELSE st,
                     db_entry[1].config)
    ELSE IF file_config # None
    THEN Loaded(save_app_config_to_db(st, file_config[1]), file_config[1])
    ELSE IF db_entry # None
    THEN Loaded(_write_config_to_file(st, db_entry[1].config), db_entry[1].config)
    ELSE Loaded(save_app_config_to_db(_write_config_to_file(st, DefaultConfig),
                                      DefaultConfig),
                DefaultConfig)

\* load_config: the state after it and the config it returns.
load_config(st, offset) ==
    Reconcile(st, load_app_config_from_db(st.db), _load_config_from_file(st.file),
              _get_file_updated_at(st.file, offset))

save_config(st, config) ==
    save_app_config_to_db(_write_config_to_file(st, config), config)

----------------------------------------------------------------------------
(* The tag catalog.                                                        *)

TAG_CATEGORY_ORDER ==
    <<S("Dietary patterns"), S("Ingredient avoidances"),
      S("Preparation and cross-contact"), S("Additives and content"),
      S("Spice and suitability"), S("Serving logistics")>>

\* DEFAULT_TAG_GROUPS, cut down to the first tag of two categories.
DEFAULT_TAG_GROUPS(category) ==
    IF category = S("Dietary patterns") THEN <<S("Vegan")>>
    ELSE IF category = S("Additives and content") THEN <<S("Contains alcohol")>>
    ELSE <<>>

CATEGORY_NORMALIZATION ==
    <<[name |-> S("Vegetarian but not vegan (contains eggs/honey)"),
       category |-> S("Dietary patterns")],
      [name |-> S("Lactose-free (distinct from dairy-free)"),
       category |-> S("Ingredient avoidances")]>>

\* SQLite's BINARY collation on the category names (ORDER BY t.category).
CategoryCollation ==
    <<S("Additives and content"), S("Dietary patterns"), S("Ingredient avoidances"),
      S("Preparation and cross-contact"), S("Serving logistics"),
      S("Spice and suitability")>>

IndexIn(seq, x) ==
    IF \E i \in DOMAIN seq : seq[i] = x
    THEN (CHOOSE i \in DOMAIN seq : seq[i] = x) - 1
    ELSE Len(seq)

_category_sort_index(category) == IndexIn(TAG_CATEGORY_ORDER, category)

\* (ca, pa, na) < (cb, pb, nb) as Python compares tuples and SQL compares
\* ORDER BY columns.
KeyLess(ca, pa, na, cb, pb, nb) ==
    \/ ca < cb
    \/ ca = cb /\ pa < pb
    \/ ca = cb /\ pa = pb /\ TextLess(na, nb)

\* _tag_sort_key(a) < _tag_sort_key(b)
TagKeyLess(a, b) ==
    KeyLess(_category_sort_index(a.category), a.position, PyLower(a.name),
            _category_sort_index(b.category), b.position, PyLower(b.name))

\* ORDER BY t.category, t.position, LOWER(t.name)
SqlTagLess(a, b) ==
    KeyLess(IndexIn(CategoryCollation, a.category), a.position, SqlLower(a.name),
            IndexIn(CategoryCollation, b.category), b.position, SqlLower(b.name))

\* The first row of a sort: no row sorts before it, and among the rows that
\* compare equal to it, it has the least id (the order of the table scan;
\* Python's sort is stable).
FirstTag(rows) ==
    CHOOSE r \in rows :
        \A q \in rows : ~TagKeyLess(q, r) /\ (TagKeyLess(r, q) \/ r.id <= q.id)

SqlFirstTag(rows) ==
    CHOOSE r \in rows :
        \A q \in rows : ~SqlTagLess(q, r) /\ (SqlTagLess(r, q) \/ r.id <= q.id)

\* tags.sort(key=_tag_sort_key)
RECURSIVE SortTags(_)
SortTagsFrom(rows, m) == <<m>> \o SortTags(rows \ {m})
SortTags(rows) == IF rows = {} THEN <<>> ELSE SortTagsFrom(rows, FirstTag(rows))

\* ... ORDER BY t.category, t.position, LOWER(t.name)
RECURSIVE SqlOrderTags(_)
SqlOrderTagsFrom(rows, m) == <<m>> \o SqlOrderTags(rows \ {m})
SqlOrderTags(rows) ==
    IF rows = {} THEN <<>> ELSE SqlOrderTagsFrom(rows, SqlFirstTag(rows))

Tag(id, name, category, position) ==
    [id |-> id, name |-> name, category |-> category, position |-> position]

\* INSERT INTO tags: the AUTOINCREMENT id, and UNIQUE (name) checked.
InsertTag(d, name, category, position) ==
    IF \E t \in d.tags : t.name = name
    THEN [ok |-> FALSE, db |-> d]
    ELSE [ok |-> TRUE,
          db |-> [d EXCEPT !.tags = @ \cup {Tag(d.tag_seq + 1, name, category, position)},
                           !.tag_seq = @ + 1]]

NextAfter(positions) == IF positions = {} THEN 0 ELSE SetMax(positions) + 1

\* SELECT COALESCE(MAX(position), -1) + 1 FROM tags WHERE category = ?
NextPosition(d, category) ==
    NextAfter({t.position : t \in {u \in d.tags : u.category = category}})

\* The existence check of create_tag.
TagExists(d, cleaned_name) ==
    \E t \in d.tags : SqlLower(t.name) = SqlLower(cleaned_name)

Created(ins) == [db |-> ins.db, err |-> IF ins.ok THEN "" ELSE "IntegrityError"]

\* create_tag after both strip() calls.
CreateCleaned(d, cleaned_name, normalized_category) ==
    IF cleaned_name = <<>>
    THEN [db |-> d, err |-> "Tag name cannot be empty"]
    ELSE IF normalized_category \notin SeqToSet(TAG_CATEGORY_ORDER)
    THEN [db |-> d, err |-> "Unknown category"]
    ELSE IF TagExists(d, cleaned_name)
    THEN [db |-> d, err |-> "That tag already exists"]
    ELSE Created(InsertTag(d, cleaned_name, normalized_category,
                           NextPosition(d, normalized_category)))

\* create_tag: err is "" when the tag was added.
create_tag(d, name, category) == CreateCleaned(d, Strip(name), Strip(category))

\* delete_tag on a connection without foreign keys: the associations stay.
DeleteTagNoCascade(d, tag_id) == [d EXCEPT !.tags = {t \in @ : t.id # tag_id}]

\* delete_tag: ON DELETE CASCADE removes the tag's associations.
delete_tag(d, tag_id) ==
    [d EXCEPT !.tags = {t \in @ : t.id # tag_id},
              !.dish_tags = {p \in @ : p[2] # tag_id}]

----------------------------------------------------------------------------
(* Dishes and their tag associations.                                      *)

AppendNew(seq, x) == IF x \in SeqToSet(seq) THEN seq ELSE Append(seq, x)

\* The de-duplication loop of _replace_dish_tags: first occurrences, in order.
RECURSIVE Dedupe(_)
Dedupe(ids) ==
    IF ids = <<>> THEN <<>>
    ELSE AppendNew(Dedupe(SubSeq(ids, 1, Len(ids) - 1)), ids[Len(ids)])

\* executemany("INSERT INTO dish_tags ..."): both foreign keys and
\* UNIQUE (dish_id, tag_id) are checked row by row.
RECURSIVE InsertDishTags(_, _, _)
InsertDishTags(d, dish_id, ids) ==
    IF ids = <<>> THEN [ok |-> TRUE, db |-> d]
    ELSE IF \/ ~\E r \in d.dishes : r.id = dish_id
            \/ ~\E t \in d.tags : t.id = Head(ids)
            \/ <<dish_id, Head(ids)>> \in d.dish_tags
    THEN [ok |-> FALSE, db |-> d]
    ELSE InsertDishTags([d EXCEPT !.dish_tags = @ \cup {<<dish_id, Head(ids)>>}],
                        dish_id, Tail(ids))

\* _replace_dish_tags without its DELETE: the new ids are merged into the old.
MergeDishTags(d, dish_id, tag_ids) ==
    InsertDishTags(d, dish_id,
                   SelectSeq(Dedupe(tag_ids), LAMBDA t : <<dish_id, t>> \notin d.dish_tags))

_replace_dish_tags(d, dish_id, tag_ids) ==
    InsertDishTags([d EXCEPT !.dish_tags = {p \in @ : p[1] # dish_id}],
                   dish_id, Dedupe(tag_ids))

DishEntry(id, contributor, dish_name, dish_type, allergens, dietary_flags, tag_ids, tags, notes, created_at) ==
    [id |-> id, contributor |-> contributor, dish_name |-> dish_name,
     dish_type |-> dish_type, allergens |-> allergens,
     dietary_flags |-> dietary_flags, tag_ids |-> tag_ids, tags |-> tags,
     notes |-> notes, created_at |-> created_at]

\* The row of an entry, its notes dropped.
DishRowNoNotes(id, entry) ==
    [id |-> id, contributor |-> entry.contributor, dish_name |-> entry.dish_name,
     dish_type |-> entry.dish_type, allergens |-> JsonDumps(entry.allergens),
     dietary_flags |-> JsonDumps(entry.dietary_flags), notes |-> None,
     created_at |-> IsoFormat(entry.created_at)]

\* The row an entry is written as.
DishRow(id, entry) ==
    [id |-> id, contributor |-> entry.contributor, dish_name |-> entry.dish_name,
     dish_type |-> entry.dish_type, allergens |-> JsonDumps(entry.allergens),
     dietary_flags |-> JsonDumps(entry.dietary_flags), notes |-> entry.notes,
     created_at |-> IsoFormat(entry.created_at)]

\* The end of a write that is not one transaction: what was written before
\* the associations failed stays written.
EndWithoutRollback(before, r, dish_id) ==
    [db |-> r.db, err |-> IF r.ok THEN "" ELSE "IntegrityError", id |-> dish_id]

\* The end of the transaction of add_dish and update_dish: committed, or
\* rolled back to the database before it when the associations failed.
EndTransaction(before, r, dish_id) ==
    IF r.ok THEN [db |-> r.db, err |-> "", id |-> dish_id]
    ELSE [db |-> before, err |-> "IntegrityError", id |-> dish_id]

add_dish(d, entry) ==
    EndTransaction(d,
        _replace_dish_tags([d EXCEPT !.dishes = @ \cup {DishRow(d.dish_seq + 1, entry)},
                                     !.dish_seq = @ + 1],
                           d.dish_seq + 1, entry.tag_ids),
        d.dish_seq + 1)

update_dish(d, dish_id, entry) ==
    EndTransaction(d,
        _replace_dish_tags([d EXCEPT !.dishes =
                               {IF r.id = dish_id THEN DishRow(dish_id, entry) ELSE r :
                                    r \in @}],
                           dish_id, entry.tag_ids),
        dish_id)

delete_dish(d, dish_id) ==
    [d EXCEPT !.dishes = {r \in @ : r.id # dish_id},
              !.dish_tags = {p \in @ : p[1] # dish_id}]

TagListOf(ts) == IF ts = {} THEN None ELSE Some(SqlOrderTags(ts))

\* _load_tags_for_dishes(conn, ids).get(dish_id): None when the dish has no
\* association.
_load_tags_for_dishes(d, dish_id) ==
    TagListOf({t \in d.tags : <<dish_id, t.id>> \in d.dish_tags})

Names(tags) == [i \in DOMAIN tags |-> tags[i].name]
Ids(tags) == [i \in DOMAIN tags |-> tags[i].id]

\* _row_to_entry once tag_list = tags or [].
EntryOf(row, tag_list) ==
    DishEntry(Some(row.id), row.contributor, row.dish_name, row.dish_type,
              JsonLoads(row.allergens),
              IF tag_list = <<>> THEN JsonLoads(row.dietary_flags) ELSE Names(tag_list),
              Ids(tag_list), tag_list, row.notes, FromIsoFormat(row.created_at))

_row_to_entry(row, tags) == EntryOf(row, IF tags = None THEN <<>> ELSE tags[1])

get_dish(d, dish_id) ==
    IF \E r \in d.dishes : r.id = dish_id
    THEN Some(_row_to_entry(CHOOSE r \in d.dishes : r.id = dish_id,
                            _load_tags_for_dishes(d, dish_id)))
    ELSE None

\* SQLite's datetime(text): the timestamp cut to whole seconds.
TicksPerSecond == 2
SqlDatetime(text) == FromIsoFormat(text) \div TicksPerSecond

\* The first row of ORDER BY datetime(created_at) ASC, id ASC.
FirstDishAscending(rows) ==
    CHOOSE r \in rows : \A q \in rows :
        \/ SqlDatetime(r.created_at) < SqlDatetime(q.created_at)
        \/ /\ SqlDatetime(r.created_at) = SqlDatetime(q.created_at)
           /\ r.id <= q.id

FirstDish(rows) ==
    CHOOSE r \in rows : \A q \in rows :
        \/ SqlDatetime(r.created_at) > SqlDatetime(q.created_at)
        \/ /\ SqlDatetime(r.created_at) = SqlDatetime(q.created_at)
           /\ r.id >= q.id

\* ... ORDER BY datetime(created_at) DESC, id DESC
RECURSIVE OrderDishes(_)
OrderDishesFrom(rows, m) == <<m>> \o OrderDishes(rows \ {m})
OrderDishes(rows) == IF rows = {} THEN <<>> ELSE OrderDishesFrom(rows, FirstDish(rows))

EntriesOf(d, rows) ==
    [i \in DOMAIN rows |-> _row_to_entry(rows[i], _load_tags_for_dishes(d, rows[i].id))]

load_dishes(d) == EntriesOf(d, OrderDishes(d.dishes))

get_tags_by_ids(d, tag_ids) ==
    IF tag_ids = <<>> THEN <<>>
    ELSE SortTags({t \in d.tags : t.id \in SeqToSet(tag_ids)})

load_tags(d) == SortTags(d.tags)

\* sorted(keys)
RECURSIVE SortedTexts(_)
SortedTextsFrom(texts, m) == <<m>> \o SortedTexts(texts \ {m})
SortedTexts(texts) ==
    IF texts = {} THEN <<>>
    ELSE SortedTextsFrom(texts, CHOOSE m \in texts : \A x \in texts : ~TextLess(x, m))

\* grouped[category], in the order of the list the tags were taken from.
BucketOf(tags, category) == SelectSeq(tags, LAMBDA t : t.category = category)

\* The (category, bucket) pairs of the categories given that have a tag.
RECURSIVE Buckets(_, _)
Buckets(tags, categories) ==
    IF categories = <<>> THEN <<>>
    ELSE (IF BucketOf(tags, Head(categories)) = <<>> THEN <<>>
          ELSE << <<Head(categories), BucketOf(tags, Head(categories))>> >>)
         \o Buckets(tags, Tail(categories))

\* load_tag_groups once the tags are loaded: the categories of
\* TAG_CATEGORY_ORDER first, any other category after them.
GroupTags(tags) ==
    Buckets(tags, TAG_CATEGORY_ORDER)
    \o Buckets(tags, SortedTexts({tags[i].category : i \in DOMAIN tags}
                                 \ SeqToSet(TAG_CATEGORY_ORDER)))

load_tag_groups(d) == GroupTags(load_tags(d))

----------------------------------------------------------------------------
(* init_db: the tables, the config rows and the tag catalog.               *)

EmptyDb ==
    [dishes |-> {}, dish_seq |-> 0, tags |-> {}, tag_seq |-> 0, dish_tags |-> {},
     config_entries |-> <<>>, app_config |-> None]

\* The rows _seed_or_migrate_config_entries inserts for a config.
SeedRows(cfg, timestamp) ==
    _bulk_insert_config_entries(
        _bulk_insert_config_entries(<<>>, CONFIG_CATEGORY_DISH_TYPES,
                                    cfg.dish_types, timestamp),
        CONFIG_CATEGORY_ADMIN_NETWORKS, cfg.admin_networks, timestamp)

\* app_config is the row of the legacy table, None when there is none.
_seed_or_migrate_config_entries(st) ==
    IF st.db.config_entries # <<>> THEN st
    ELSE Tick([st EXCEPT !.db.config_entries =
                  SeedRows(IF st.db.app_config # None THEN st.db.app_config[1]
                           ELSE DefaultConfig, st.now)])

\* The default tags of the categories from index c on, names from index i on.
RECURSIVE InsertDefaultsFrom(_, _, _)
InsertDefaultNames(d, c, i, names) ==
    IF i > Len(names) THEN InsertDefaultsFrom(d, c + 1, 1)
    ELSE InsertDefaultsFrom(InsertTag(d, names[i], TAG_CATEGORY_ORDER[c], i - 1).db,
                            c, i + 1)
InsertDefaultsFrom(d, c, i) ==
    IF c > Len(TAG_CATEGORY_ORDER) THEN d
    ELSE InsertDefaultNames(d, c, i, DEFAULT_TAG_GROUPS(TAG_CATEGORY_ORDER[c]))

_insert_default_tags(d) == InsertDefaultsFrom(d, 1, 1)

LastOf(hits) == IF hits = {} THEN None ELSE Some(SetMax(hits))

\* lookup.get(flag.strip().lower()) of _backfill_dish_tags: the dict keeps the
\* last row of each key, the rows being read in id order.
BackfillLookup(tags, flag) ==
    LastOf({t.id : t \in {u \in tags : PyLower(Strip(u.name)) = PyLower(Strip(flag))}})

RECURSIVE BackfillIds(_, _)
BackfillIds(tags, flags) ==
    IF flags = <<>> THEN <<>>
    ELSE BackfillLookup(tags, Head(flags)) \o BackfillIds(tags, Tail(flags))

\* One dish of the loop of _backfill_dish_tags.
BackfillDish(d, dish_id, flags, tag_ids) ==
    IF (\E p \in d.dish_tags : p[1] = dish_id) \/ tag_ids = <<>> THEN d
    ELSE _replace_dish_tags(d, dish_id, tag_ids).db

RowOf(d, dish_id) == CHOOSE r \in d.dishes : r.id = dish_id

RECURSIVE BackfillDishes(_, _, _)
BackfillNext(d, tags, ids, dish_id) ==
    BackfillDishes(
        BackfillDish(d, dish_id, JsonLoads(RowOf(d, dish_id).dietary_flags),
                     BackfillIds(tags, JsonLoads(RowOf(d, dish_id).dietary_flags))),
        tags, ids \ {dish_id})
BackfillDishes(d, tags, ids) ==
    IF ids = {} THEN d
    ELSE BackfillNext(d, tags, ids, CHOOSE x \in ids : \A y \in ids : x <= y)

_backfill_dish_tags(d) == BackfillDishes(d, d.tags, {r.id : r \in d.dishes})

MoveTag(d, t, desired) ==
    [d EXCEPT !.tags = (@ \ {t}) \cup
        {[t EXCEPT !.category = desired, !.position = NextPosition(d, desired)]}]

RECURSIVE NormalizeFrom(_, _)
NormalizeHit(d, k, hit) ==
    IF hit = {} THEN NormalizeFrom(d, k + 1)
    ELSE NormalizeFrom(MoveTag(d, TheOne(hit), CATEGORY_NORMALIZATION[k].category), k + 1)
NormalizeFrom(d, k) ==
    IF k > Len(CATEGORY_NORMALIZATION) THEN d
    ELSE NormalizeHit(d, k, {t \in d.tags :
                                /\ t.name = CATEGORY_NORMALIZATION[k].name
                                /\ t.category # CATEGORY_NORMALIZATION[k].category})

_normalize_existing_tag_categories(d) == NormalizeFrom(d, 1)

_seed_or_migrate_tags(d) ==
    _normalize_existing_tag_categories(
        _backfill_dish_tags(IF d.tags = {} THEN _insert_default_tags(d) ELSE d))

WithTags(st) == [st EXCEPT !.db = _seed_or_migrate_tags(@)]

init_db(st) == WithTags(_seed_or_migrate_config_entries(st))

----------------------------------------------------------------------------
(* The web layer: helpers of src/app/main.py.                              *)

\* The stored state the handlers thread through their calls.
St == [db |-> db, file |-> file, now |-> now]

ConfigOr(r) == [st |-> r.st, config |-> IF cached # None THEN cached[1] ELSE r.config]

\* getattr(app.state, "config", load_config()): the default is evaluated,
\* so load_config runs on every call.
get_config(st) == ConfigOr(load_config(st, tz))

FirstSep(s, sep) == CHOOSE i \in DOMAIN s : s[i] = sep /\ \A j \in 1..(i - 1) : s[j] # sep

\* text.split(sep) for a one-atom separator.
RECURSIVE SplitOn(_, _)
SplitAt(s, sep, k) == <<SubSeq(s, 1, k - 1)>> \o SplitOn(SubSeq(s, k + 1, Len(s)), sep)
SplitOn(s, sep) ==
    IF \E i \in DOMAIN s : s[i] = sep THEN SplitAt(s, sep, FirstSep(s, sep)) ELSE <<s>>

StripAll(chunks) == [i \in DOMAIN chunks |-> Strip(chunks[i])]

\* [chunk.strip() for chunk in chunks if chunk.strip()]
StripNonBlank(chunks) == SelectSeq(StripAll(chunks), LAMBDA c : c # <<>>)

_parse_allergens(raw) ==
    IF raw = None \/ raw = Some(<<>>) THEN <<>>
    ELSE StripNonBlank(SplitOn(raw[1], ","))

_normalize_tag_ids(raw_ids) == Dedupe(raw_ids)

\* ", ".join(parts)
RECURSIVE Join(_)
Join(parts) ==
    IF parts = <<>> THEN <<>>
    ELSE IF Len(parts) = 1 THEN parts[1]
    ELSE parts[1] \o <<",", " ">> \o Join(Tail(parts))

\* needle in hay, for str
RECURSIVE StrIn(_, _)
StrIn(needle, hay) ==
    IF Len(hay) < Len(needle) THEN FALSE
    ELSE SubSeq(hay, 1, Len(needle)) = needle \/ StrIn(needle, Tail(hay))

searchable_chunks(dish) ==
    <<dish.dish_name, dish.contributor, dish.dish_type,
      IF dish.notes = None THEN <<>> ELSE dish.notes[1],
      Join(dish.allergens), Join(dish.dietary_flags)>>

\* The test of a chunk without lower-casing the chunk.
ChunkMatchesCased(search, chunk) == chunk # <<>> /\ StrIn(search, chunk)

\* chunk and search in chunk.lower()
ChunkMatches(search, chunk) == chunk # <<>> /\ StrIn(search, PyLower(chunk))

\* The inner loop of _filter_dishes: it stops at the first chunk that matches.
AnyChunk(search, chunks) == \E i \in DOMAIN chunks : ChunkMatches(search, chunks[i])

RECURSIVE FilterLoop(_, _)
FilterLoop(dishes, search) ==
    IF dishes = <<>> THEN <<>>
    ELSE (IF AnyChunk(search, searchable_chunks(Head(dishes)))
          THEN <<Head(dishes)>> ELSE <<>>) \o FilterLoop(Tail(dishes), search)

FilterFor(dishes, search) == IF search = <<>> THEN dishes ELSE FilterLoop(dishes, search)

_filter_dishes(dishes, query) == FilterFor(dishes, PyLower(Strip(query)))

Matches(client_ip, net) == net # None /\ InNetwork(client_ip, net[1])

\* The loop of _is_ip_allowed over config.admin_networks.
RECURSIVE AnyNetworkMatches(_, _)
AnyNetworkMatches(client_ip, networks) ==
    IF networks = <<>> THEN FALSE
    ELSE IF Matches(client_ip, ip_network(Head(networks))) THEN TRUE
    ELSE AnyNetworkMatches(client_ip, Tail(networks))

\* The access check with "except ValueError: return False".
RECURSIVE AnyNetworkMatchesAbort(_, _)
AnyNetworkMatchesAbort(client_ip, networks) ==
    IF networks = <<>> \/ ip_network(Head(networks)) = None THEN FALSE
    ELSE IF InNetwork(client_ip, ip_network(Head(networks))[1]) THEN TRUE
    ELSE AnyNetworkMatchesAbort(client_ip, Tail(networks))

AllowedIpAbort(client_ip, config) ==
    IF client_ip = None THEN FALSE
    ELSE AnyNetworkMatchesAbort(client_ip[1], config.admin_networks)

AllowedIp(client_ip, config) ==
    IF client_ip = None THEN FALSE
    ELSE AnyNetworkMatches(client_ip[1], config.admin_networks)

\* client is request.client: None, or the host text.
_is_ip_allowed(client, config) ==
    AllowedIp(ip_address(IF client # None THEN client[1] ELSE Loopback), config)

\* notes.strip() if notes else None
CleanNotes(notes) ==
    IF notes = None \/ notes = Some(<<>>) THEN None ELSE Some(Strip(notes[1]))

----------------------------------------------------------------------------
(* The request handlers: the stored state after the request, the status    *)
(* of the response and, for the handlers that redirect with one, the       *)
(* message.  A form field declared with min_length=1 is validated before   *)
(* the handler's body runs, and answered with 422 when empty.              *)

Response(st, status, msg) == [st |-> st, status |-> status, msg |-> msg]

Denied(g) == Response(g.st, 403, "Admin access restricted")

home(st) == Response(get_config(st).st, 200, "")

Saved(g, r) ==
    IF r.err # "" THEN Response(g.st, 500, r.err)
    ELSE Response([g.st EXCEPT !.db = r.db], 303, "")

\* DishEntry(...) validates its fields, then add_dish(entry).
AddEntry(g, entry) ==
    IF entry.contributor = <<>> \/ entry.dish_name = <<>>
    THEN Response(g.st, 500, "ValidationError")
    ELSE Saved(g, add_dish(g.st.db, entry))

AddTags(g, form, dish_type, tag_ids, tags) ==
    IF Len(tags) # Len(tag_ids)
    THEN Response(g.st, 400, "Unknown dietary tag selected")
    ELSE AddEntry(g, DishEntry(None, Strip(form.contributor), Strip(form.dish_name),
                               dish_type, _parse_allergens(form.allergens),
                               Names(tags), Ids(tags), <<>>, CleanNotes(form.notes),
                               g.st.now))

AddBody(g, form, dish_type, tag_ids) ==
    IF dish_type \notin SeqToSet(g.config.dish_types)
    THEN Response(g.st, 400, "Unknown dish type")
    ELSE AddTags(g, form, dish_type, tag_ids, get_tags_by_ids(g.st.db, tag_ids))

add_submission(st, form, dish_type, dietary_tags) ==
    IF form.contributor = <<>> \/ form.dish_name = <<>> THEN Response(st, 422, "")
    ELSE AddBody(get_config(st), form, dish_type, _normalize_tag_ids(dietary_tags))

AdminPageBody(g, client) ==
    IF ~_is_ip_allowed(client, g.config) THEN Denied(g) ELSE Response(g.st, 200, "")

admin_page(st, client) == AdminPageBody(get_config(st), client)

Settings(r, config) == [r |-> r, config |-> config]

\* update_admin_settings without its check of the network list.
UpdateBodyAnyNetworks(g, client, dish_types, networks) ==
    IF ~_is_ip_allowed(client, g.config) THEN Settings(Denied(g), cached)
    ELSE IF dish_types = <<>>
    THEN Settings(Response(g.st, 400, "At least one dish type is required"), cached)
    ELSE Settings(Response(save_config(g.st, AppConfig(dish_types, networks)), 303, ""),
                  Some(AppConfig(dish_types, networks)))

\* update_admin_settings without its assignment to app.state.config.
UpdateBodyStaleCache(g, client, dish_types, networks) ==
    IF ~_is_ip_allowed(client, g.config) THEN Settings(Denied(g), cached)
    ELSE IF dish_types = <<>>
    THEN Settings(Response(g.st, 400, "At least one dish type is required"), cached)
    ELSE IF networks = <<>>
    THEN Settings(Response(g.st, 400, "At least one network is required"), cached)
    ELSE Settings(Response(save_config(g.st, AppConfig(dish_types, networks)), 303, ""),
                  cached)

UpdateBody(g, client, dish_types, networks) ==
    IF ~_is_ip_allowed(client, g.config) THEN Settings(Denied(g), cached)
    ELSE IF dish_types = <<>>
    THEN Settings(Response(g.st, 400, "At least one dish type is required"), cached)
    ELSE IF networks = <<>>
    THEN Settings(Response(g.st, 400, "At least one network is required"), cached)
    ELSE Settings(Response(save_config(g.st, AppConfig(dish_types, networks)), 303, ""),
                  Some(AppConfig(dish_types, networks)))

\* The response and the config that app.state.config holds afterwards.
update_admin_settings(st, client, dish_types_input, admin_networks_input) ==
    UpdateBody(get_config(st), client,
               StripNonBlank(SplitOn(dish_types_input, "\n")),
               StripNonBlank(SplitOn(admin_networks_input, "\n")))

\* _redirect_to_admin with the outcome of create_tag.
TagAdded(g, r) ==
    IF r.err = "IntegrityError" THEN Response(g.st, 500, r.err)
    ELSE IF r.err # "" THEN Response(g.st, 303, r.err)
    ELSE Response([g.st EXCEPT !.db = r.db], 303, "Tag added")

AddTagBody(g, client, tag_name, tag_category) ==
    IF ~_is_ip_allowed(client, g.config) THEN Denied(g)
    ELSE TagAdded(g, create_tag(g.st.db, tag_name, tag_category))

add_tag_action(st, client, tag_name, tag_category) ==
    IF tag_name = <<>> THEN Response(st, 422, "")
    ELSE AddTagBody(get_config(st), client, tag_name, tag_category)

\* The tag delete route without its access check.
DeleteTagBodyUnchecked(g, client, tag_id) ==
    Response([g.st EXCEPT !.db = delete_tag(@, tag_id)], 303, "Tag removed")

DeleteTagBody(g, client, tag_id) ==
    IF ~_is_ip_allowed(client, g.config) THEN Denied(g)
    ELSE Response([g.st EXCEPT !.db = delete_tag(@, tag_id)], 303, "Tag removed")

delete_tag_action(st, client, tag_id) == DeleteTagBody(get_config(st), client, tag_id)

\* _get_dish_or_404: None stands for the 404 it raises.
_get_dish_or_404(d, dish_id) == get_dish(d, dish_id)

EditFormBody(g, client, dish_id) ==
    IF ~_is_ip_allowed(client, g.config) THEN Denied(g)
    ELSE IF _get_dish_or_404(g.st.db, dish_id) = None
    THEN Response(g.st, 404, "Dish not found")
    ELSE Response(g.st, 200, "")

edit_dish_form(st, client, dish_id) == EditFormBody(get_config(st), client, dish_id)

\* dish.model_copy(update=...), which validates nothing, then update_dish.
EditTags(g, dish_id, dish, form, dish_type, tag_ids, tags) ==
    IF Len(tags) # Len(tag_ids)
    THEN Response(g.st, 400, "Unknown dietary tag selected")
    ELSE Saved(g, update_dish(g.st.db, dish_id,
                   [dish EXCEPT !.contributor = Strip(form.contributor),
                                !.dish_name = Strip(form.dish_name),
                                !.dish_type = dish_type,
                                !.allergens = _parse_allergens(form.allergens),
                                !.dietary_flags = Names(tags),
                                !.tag_ids = Ids(tags),
                                !.notes = CleanNotes(form.notes)]))

\* The edit route without the check of the dish type.
EditDishAnyType(g, dish_id, dish, form, dish_type, tag_ids) ==
    IF dish = None THEN Response(g.st, 404, "Dish not found")
    ELSE EditTags(g, dish_id, dish[1], form, dish_type, tag_ids,
                  get_tags_by_ids(g.st.db, tag_ids))

EditDish(g, dish_id, dish, form, dish_type, tag_ids) ==
    IF dish = None THEN Response(g.st, 404, "Dish not found")
    ELSE IF dish_type \notin SeqToSet(g.config.dish_types)
    THEN Response(g.st, 400, "Unknown dish type")
    ELSE EditTags(g, dish_id, dish[1], form, dish_type, tag_ids,
                  get_tags_by_ids(g.st.db, tag_ids))

EditBody(g, client, dish_id, form, dish_type, tag_ids) ==
    IF ~_is_ip_allowed(client, g.config) THEN Denied(g)
    ELSE EditDish(g, dish_id, _get_dish_or_404(g.st.db, dish_id), form, dish_type,
                  tag_ids)

edit_dish_submit(st, client, dish_id, form, dish_type, dietary_tags) ==
    IF form.contributor = <<>> \/ form.dish_name = <<>> THEN Response(st, 422, "")
    ELSE EditBody(get_config(st), client, dish_id, form, dish_type,
                  _normalize_tag_ids(dietary_tags))

DeleteDishBody(g, client, dish_id) ==
    IF ~_is_ip_allowed(client, g.config) THEN Denied(g)
    ELSE IF _get_dish_or_404(g.st.db, dish_id) = None
    THEN Response(g.st, 404, "Dish not found")
    ELSE Response([g.st EXCEPT !.db = delete_dish(@, dish_id)], 303, "")

delete_dish_action(st, client, dish_id) == DeleteDishBody(get_config(st), client, dish_id)

----------------------------------------------------------------------------
(* The inputs the actions draw from.                                       *)

Garbage == <<"zz">>

\* request.client: absent, the loopback address, an address in the upper
\* half of the address space, the loopback number in the other address
\* family, and text that is no address.
Clients ==
    {None, Some(Loopback), Some(IpText("v4", MaxAddr - 2)), Some(IpText("v6", 1)),
     Some(Garbage)}

\* The clients of the requests that are not GET /pantry-admin.
FewClients == {Some(Loopback), Some(IpText("v6", 1))}

\* The upper half of the v4 address space, written with host bits set.
UpperNet == NetText("v4", MaxAddr - 2, 1)

\* Network lists as the admin form posts them, one network per line.
NetworksInputs ==
    {Garbage \o <<"\n", " ">> \o UpperNet \o <<"\n">> \o LoopbackNet,
     Garbage,
     <<" ", "\n">>}

\* Dish-type lists as the admin form posts them.
DishTypesInputs == {<<" ", "Soup", " ", "\n", "Main Dish">>, <<"\n", " ">>}

DishTypeInputs == {S("Dessert"), S("Soup")}

\* The text fields of the dish form; the last has an empty required field.
Forms ==
    {[contributor |-> <<"ann", " ">>, dish_name |-> S("chili"),
      allergens |-> Some(<<"nuts", ",", " ", "soy">>), notes |-> Some(<<" ", "hot">>)],
     [contributor |-> S("bob"), dish_name |-> <<"pie">>,
      allergens |-> None, notes |-> None],
     [contributor |-> <<>>, dish_name |-> <<"pie">>,
      allergens |-> None, notes |-> Some(<<>>)]}

TagIds == 1..MaxTagId
DishIds == 1..MaxDishId

\* The dietary_tags of the dish form.
TagIdInputs == {<<>>, <<2, 1, 2>>, <<MaxTagId>>}

TagNameInputs == {<<" ", "a">>, S("A"), S("É"), S("é"), <<" ">>, <<>>}
TagCategoryInputs == {<<"Additives and content", " ">>, S("Desserts")}

----------------------------------------------------------------------------
(* Actions: the process, and one per request handler.  Each handler action *)
(* takes the sets its request is drawn from.                               *)

Commit(st) ==
    /\ st.now <= MaxClock
    /\ db' = st.db
    /\ file' = st.file
    /\ now' = st.now

\* The last call or request: its name, its status and its message.
Outcome(op, status, msg) == [op |-> op, status |-> status, msg |-> msg]

Started(r) ==
    /\ Commit(r.st)
    /\ cached' = Some(r.config)

\* _startup: init_db(), then app.state.config = load_config().
Startup ==
    /\ ~running
    /\ Started(load_config(init_db(St), tz))
    /\ last' = Outcome("startup", 0, "")
    /\ running' = TRUE
    /\ UNCHANGED <<tz, procs>>

\* The process exits; the next Startup is a restart.
Stop ==
    /\ running
    /\ running' = FALSE
    /\ cached' = None
    /\ last' = Outcome("stop", 0, "")
    /\ UNCHANGED <<db, file, now, tz, procs>>

Answer(op, client, r) ==
    /\ running
    /\ Commit(r.st)
    /\ last' = Outcome(op, r.status, r.msg)
    /\ UNCHANGED <<tz, running, procs>>

Home == Answer("home", None, home(St)) /\ UNCHANGED cached

AddSubmission(forms, dish_types, tag_lists) ==
    \E form \in forms, dish_type \in dish_types, dietary_tags \in tag_lists :
        /\ db.dish_seq < MaxDishId
        /\ Answer("add_submission", None,
                  add_submission(St, form, dish_type, dietary_tags))
        /\ UNCHANGED cached

AdminPage(clients) ==
    \E client \in clients :
        Answer("admin_page", client, admin_page(St, client)) /\ UNCHANGED cached

Updated(client, u) ==
    /\ Answer("update_admin_settings", client, u.r)
    /\ cached' = u.config

UpdateAdminSettings(clients, dish_types_inputs, networks_inputs) ==
    \E client \in clients, dish_types_input \in dish_types_inputs,
       admin_networks_input \in networks_inputs :
        Updated(client, update_admin_settings(St, client, dish_types_input,
                                              admin_networks_input))

AddTagAction(clients, names, categories) ==
    \E client \in clients, tag_name \in names, tag_category \in categories :
        /\ db.tag_seq < MaxTagId
        /\ Answer("add_tag_action", client,
                  add_tag_action(St, client, tag_name, tag_category))
        /\ UNCHANGED cached

DeleteTagAction(clients, tag_ids) ==
    \E client \in clients, tag_id \in tag_ids :
        /\ Answer("delete_tag_action", client, delete_tag_action(St, client, tag_id))
        /\ UNCHANGED cached

EditDishForm(clients, dish_ids) ==
    \E client \in clients, dish_id \in dish_ids :
        /\ Answer("edit_dish_form", client, edit_dish_form(St, client, dish_id))
        /\ UNCHANGED cached

EditDishSubmit(clients, dish_ids, forms, dish_types, tag_lists) ==
    \E client \in clients, dish_id \in dish_ids, form \in forms,
       dish_type \in dish_types, dietary_tags \in tag_lists :
        /\ Answer("edit_dish_submit", client,
                  edit_dish_submit(St, client, dish_id, form, dish_type, dietary_tags))
        /\ UNCHANGED cached

DeleteDishAction(clients, dish_ids) ==
    \E client \in clients, dish_id \in dish_ids :
        /\ Answer("delete_dish_action", client, delete_dish_action(St, client, dish_id))
        /\ UNCHANGED cached

NoProcs == <<>>

----------------------------------------------------------------------------
(* Spec: the application from its first run on a server whose local time   *)
(* is UTC, every handler.                                                  *)

\* A first run: no database, no config file.
Init ==
    /\ db = EmptyDb
    /\ file = None
    /\ cached = None
    /\ now = 0
    /\ tz = 0
    /\ running = FALSE
    /\ last = Outcome("none", 0, "")
    /\ procs = NoProcs

OneForm == {CHOOSE f \in Forms : f.allergens # None}
OneDishType == {S("Dessert")}
OneTagList == {<<1>>}
OneDish == {1}
OneTagName == {<<" ", "a">>}
OneCategory == {<<"Additives and content", " ">>}

Next ==
    \/ Startup
    \/ Stop
    \/ Home
    \/ AddSubmission(OneForm, OneDishType, OneTagList)
    \/ AdminPage(Clients)
    \/ UpdateAdminSettings(FewClients, DishTypesInputs, NetworksInputs)
    \/ AddTagAction(FewClients, OneTagName, OneCategory)
    \/ DeleteTagAction(FewClients, TagIds)
    \/ EditDishForm(FewClients, OneDish)
    \/ EditDishSubmit(FewClients, OneDish, OneForm, OneDishType, OneTagList)
    \/ DeleteDishAction(FewClients, OneDish)

Spec == Init /\ [][Next]_vars

----------------------------------------------------------------------------
(* SpecAccess: the running application after an admin saved a list of      *)
(* admin networks, parseable or not.                                       *)

FirstRun == [db |-> EmptyDb, file |-> None, now |-> 0]

\* The lines an admin may have saved as networks.
NetworkTexts ==
    {Garbage, UpperNet, LoopbackNet, IpText("v6", 1), NetText("v4", 1, AddrBits + 1),
     IpText("v4", MaxAddr + 1)}

NetworkLists ==
    {<<a>> : a \in NetworkTexts}
    \cup {<<a, b>> : a \in NetworkTexts, b \in NetworkTexts}
    \cup {<<a, b, c>> : a \in {Garbage, UpperNet}, b \in NetworkTexts,
                        c \in {LoopbackNet, IpText("v6", 1)}}

Configured(st, config) ==
    /\ db = st.db
    /\ file = st.file
    /\ now = st.now
    /\ cached = Some(config)

InitAccess ==
    /\ \E networks \in NetworkLists :
           Configured(save_config(load_config(init_db(FirstRun), 0).st,
                                  AppConfig(DefaultConfig.dish_types, networks)),
                      AppConfig(DefaultConfig.dish_types, networks))
    /\ tz = 0
    /\ running = TRUE
    /\ last = Outcome("update_admin_settings", 303, "")
    /\ procs = NoProcs

NextAccess ==
    \/ AdminPage(Clients)
    \/ EditDishForm(Clients, OneDish)
    \/ Home

SpecAccess == InitAccess /\ [][NextAccess]_vars

----------------------------------------------------------------------------
(* What the claims about the access check mean by an address, a network    *)
(* and membership, stated without the parsing code.                        *)

\* The address a request comes from (127.0.0.1 when the server has none).
ClientHost(client) == IF client = None THEN Loopback ELSE client[1]

IsAddress(s) == \E ver \in IpVersions, a \in 0..MaxAddr : s = IpText(ver, a)

IsNetwork(n) ==
    \E ver \in IpVersions, b \in 0..MaxAddr :
        \/ n = IpText(ver, b)
        \/ \E p \in 0..AddrBits : n = NetText(ver, b, p)

\* Address a of family ver lies in the network written n.
InPrefix(n, ver, a) ==
    \E b \in 0..MaxAddr, p \in 0..AddrBits :
        /\ n = NetText(ver, b, p) \/ (p = AddrBits /\ n = IpText(ver, b))
        /\ a \div Pow2(AddrBits - p) = b \div Pow2(AddrBits - p)

Contains(n, s) ==
    \E ver \in IpVersions, a \in 0..MaxAddr : s = IpText(ver, a) /\ InPrefix(n, ver, a)

LiesInside(client, networks) ==
    \E i \in DOMAIN networks : Contains(networks[i], ClientHost(client))

\* The config the database holds.
StoredConfig == load_app_config_from_db(db)[1].config

FormOk(f) == f.contributor # <<>> /\ f.dish_name # <<>>

\* The forms with an empty required field.
BlankForm == {f \in Forms : ~FormOk(f)}

\* A request and its response: ok tells whether the form fields of the
\* request pass the validation the route declares.
Reply(ok, r) == [ok |-> ok, r |-> r]

\* The responses of the admin routes to a client, over the inputs.
AdminReplies(client) ==
    {Reply(TRUE, admin_page(St, client))}
    \cup {Reply(TRUE, update_admin_settings(St, client, d, n).r) :
              d \in DishTypesInputs, n \in NetworksInputs}
    \cup {Reply(n # <<>>, add_tag_action(St, client, n, c)) :
              n \in {<<" ", "a">>, <<>>}, c \in TagCategoryInputs}
    \cup {Reply(TRUE, delete_tag_action(St, client, t)) : t \in TagIds}
    \cup {Reply(TRUE, edit_dish_form(St, client, d)) : d \in DishIds}
    \cup {Reply(FormOk(f), edit_dish_submit(St, client, d, f, S("Dessert"), l)) :
              d \in DishIds, f \in OneForm \cup BlankForm, l \in {<<1, 2>>}}
    \cup {Reply(TRUE, delete_dish_action(St, client, d)) : d \in DishIds}

DeniedUnchanged(r) == r.status = 403 /\ r.st = St

RefusedUnchanged(q) ==
    /\ q.r.st = St
    /\ q.r.status = IF q.ok THEN 403 ELSE 422

Granted(client) == admin_page(St, client).status = 200
Refused(client) == admin_page(St, client).status = 403

\* C4: the access check fails closed: a client address that is no IP address
\* is denied whatever the networks are; access is granted exactly when the
\* address lies in a network of the list that parses, so an unparseable
\* network neither matches nor hides a valid one; if no network of the list
\* parses, every request is denied.
C4_Theorem ==
    \A client \in Clients :
        /\ Granted(client) \/ Refused(client)
        /\ ~IsAddress(ClientHost(client)) => Refused(client)
        /\ Granted(client) <=> LiesInside(client, StoredConfig.admin_networks)
        /\ (\A i \in DOMAIN StoredConfig.admin_networks :
                ~IsNetwork(StoredConfig.admin_networks[i])) => Refused(client)

\* The admin page was served although the first configured network does not
\* parse.
C4_Witness ==
    /\ last.op = "admin_page"
    /\ last.status = 200
    /\ Len(StoredConfig.admin_networks) > 1
    /\ ~IsNetwork(StoredConfig.admin_networks[1])

----------------------------------------------------------------------------
(* Dish submissions and lookups by id.                                     *)

UnknownTag(tag_ids) == \E i \in DOMAIN tag_ids : \A t \in db.tags : t.id # tag_ids[i]

\* The submission must be rejected: its dish type is not configured, or one
\* of its tag ids names no tag.
MustReject(dish_type, tag_ids) ==
    \/ dish_type \notin SeqToSet(StoredConfig.dish_types)
    \/ UnknownTag(tag_ids)

\* A response with a client error that left dishes and associations alone.
Rejected(r) ==
    /\ r.status \in 400..499
    /\ r.st.db.dishes = db.dishes
    /\ r.st.db.dish_tags = db.dish_tags

NotFoundUnchanged(r) == r.status = 404 /\ r.st = St

\* C10 as claimed: an admin request from an allowed address for a dish id or
\* a tag id that does not exist is answered with not found and changes
\* nothing stored.
C10_AsClaimed ==
    running =>
        \A client \in Clients :
            LiesInside(client, StoredConfig.admin_networks) =>
                /\ \A dish_id \in DishIds :
                       (\A r \in db.dishes : r.id # dish_id) =>
                           /\ NotFoundUnchanged(edit_dish_form(St, client, dish_id))
                           /\ NotFoundUnchanged(delete_dish_action(St, client, dish_id))
                           /\ \A form \in {f \in Forms : FormOk(f)} :
                                  NotFoundUnchanged(
                                      edit_dish_submit(St, client, dish_id, form,
                                                       S("Dessert"), <<>>))
                /\ \A tag_id \in TagIds :
                       (\A t \in db.tags : t.id # tag_id) =>
                           NotFoundUnchanged(delete_tag_action(St, client, tag_id))

----------------------------------------------------------------------------
(* The admin settings.                                                     *)

\* Text with no non-blank line.
Blank(text) == \A i \in DOMAIN text : text[i] \in {" ", "\n"}

HasBoth(config) == config.dish_types # <<>> /\ config.admin_networks # <<>>

\* The cached config, the config file and the database rows all hold a dish
\* type and a network.
AllHaveBoth(st, cache) ==
    /\ cache # None /\ HasBoth(cache[1])
    /\ st.file # None /\ HasBoth(st.file[1].data)
    /\ load_app_config_from_db(st.db) # None
    /\ HasBoth(load_app_config_from_db(st.db)[1].config)

\* The update was refused with a client error and changed nothing.
SettingsKept(u) == u.r.status \in 400..499 /\ u.r.st = St /\ u.config = cached

SettingsOk(u, d, n) ==
    /\ AllHaveBoth(u.r.st, u.config)
    /\ Blank(d) \/ Blank(n) => SettingsKept(u)

\* C12: from the default config on, while the application runs the cached
\* config, the config file and the database rows hold at least one dish type
\* and one admin network, before and after every settings update; an update
\* whose dish-type input or network input has no non-blank line is rejected
\* with a client error and changes neither the cache, the file nor the rows.
C12_Theorem ==
    running =>
        /\ AllHaveBoth(St, cached)
        /\ \A client \in FewClients, d \in DishTypesInputs \cup {<<>>},
              n \in NetworksInputs \cup {<<>>} :
               SettingsOk(update_admin_settings(St, client, d, n), d, n)

\* An update with a blank network list was rejected after an update that
\* changed the config.
C12_Witness ==
    /\ running
    /\ last = Outcome("update_admin_settings", 400, "At least one network is required")
    /\ cached # Some(DefaultConfig)

\* The non-blank lines of the settings inputs, written out.
LinesOf(text) ==
    CASE text = <<" ", "Soup", " ", "\n", "Main Dish">> -> <<S("Soup"), S("Main Dish")>>
      [] text = Garbage \o <<"\n", " ">> \o UpperNet \o <<"\n">> \o LoopbackNet
             -> <<Garbage, UpperNet, LoopbackNet>>
      [] text = Garbage -> <<Garbage>>
      [] OTHER -> <<>>

\* The update is authorised against the networks in force before it, and
\* when it succeeds the database rows and the cache hold the lines submitted.
TakesEffect(u, client, d, n) ==
    /\ u.r.status = 403 <=> ~LiesInside(client, StoredConfig.admin_networks)
    /\ u.r.status = 303 =>
           /\ load_app_config_from_db(u.r.st.db)[1].config = AppConfig(LinesOf(d), LinesOf(n))
           /\ u.config = Some(AppConfig(LinesOf(d), LinesOf(n)))

UnknownType(r) == r.status = 400 /\ r.msg = "Unknown dish type"

ExistingIds == {r.id : r \in db.dishes}

\* C13: while the application runs, requests are decided against the config
\* of the last settings update that succeeded (the one the database holds):
\* add and edit submissions validate the dish type against its dish types and
\* the admin access check uses its networks, with no restart in between; the
\* update itself is authorised against the networks in force before it.
C13_Theorem ==
    running =>
        /\ cached = Some(StoredConfig)
        /\ \A client \in FewClients, d \in DishTypesInputs, n \in NetworksInputs :
               TakesEffect(update_admin_settings(St, client, d, n), client, d, n)
        /\ \A client \in Clients :
               Granted(client) <=> LiesInside(client, StoredConfig.admin_networks)
        /\ \A form \in OneForm, dish_type \in DishTypeInputs \cup {S("Main Dish")} :
               /\ UnknownType(add_submission(St, form, dish_type, <<>>))
                      <=> dish_type \notin SeqToSet(StoredConfig.dish_types)
               /\ \A dish_id \in ExistingIds :
                      UnknownType(edit_dish_submit(St, Some(Loopback), dish_id, form,
                                                   dish_type, <<>>))
                          <=> /\ LiesInside(Some(Loopback), StoredConfig.admin_networks)
                              /\ dish_type \notin SeqToSet(StoredConfig.dish_types)

\* After an update that dropped Dessert from the dish types, a submission of
\* a dessert was rejected.
C13_Witness ==
    /\ running
    /\ last = Outcome("add_submission", 400, "Unknown dish type")
    /\ StoredConfig.dish_types = <<S("Soup"), S("Main Dish")>>
----------------------------------------------------------------------------
(* SpecStorage: the persistence layer called directly, from a freshly      *)
(* initialised database.                                                   *)

\* The fields of an entry other than its tags.
Profiles ==
    {[contributor |-> S("ann"), dish_name |-> S("chili"), dish_type |-> S("Main Dish"),
      allergens |-> <<S("nuts"), S("soy")>>, notes |-> Some(S("hot")), created_at |-> 0],
     [contributor |-> S("bob"), dish_name |-> S("pie"), dish_type |-> S("Dessert"),
      allergens |-> <<>>, notes |-> None, created_at |-> MaxClock + 1]}

NamesOf(d, ids) == Names([i \in DOMAIN ids |-> CHOOSE t \in d.tags : t.id = ids[i]])

AllExist(d, ids) == \A i \in DOMAIN ids : \E t \in d.tags : t.id = ids[i]

\* An entry with the tag ids given and, as its dietary flags, their names.
Entry(d, profile, ids) ==
    DishEntry(None, profile.contributor, profile.dish_name, profile.dish_type,
              profile.allergens,
              NamesOf(d, SelectSeq(ids, LAMBDA x : \E t \in d.tags : t.id = x)),
              ids, <<>>, profile.notes, profile.created_at)

\* Tag-id lists: every list of at most two ids, and the lists of three that
\* repeat their first id.
IdLists ==
    {<<>>} \cup {<<a>> : a \in TagIds} \cup {<<a, b>> : a \in TagIds, b \in TagIds}
    \cup {<<a, b, a>> : a \in TagIds, b \in TagIds}

\* The lists the calls of the specification pass: none, a list that repeats
\* an id, and the id of a tag that exists only once it has been created.
AddLists == {<<>>, <<2, 1, 2>>}
UpdateLists == {<<2, 1, 2>>, <<MaxTagId>>}

Called(op, r) ==
    /\ db' = r.db
    /\ last' = Outcome(op, 0, r.err)
    /\ UNCHANGED <<file, cached, now, tz, running, procs>>

CallAddDish(profiles, id_lists) ==
    \E profile \in profiles, ids \in id_lists :
        /\ db.dish_seq < MaxDishId
        /\ Called("add_dish", add_dish(db, Entry(db, profile, ids)))

CallUpdateDish(dish_ids, profiles, id_lists) ==
    \E dish_id \in dish_ids, profile \in profiles, ids \in id_lists :
        Called("update_dish", update_dish(db, dish_id, Entry(db, profile, ids)))

Done(d) == [db |-> d, err |-> ""]

CallDeleteDish(dish_ids) ==
    \E dish_id \in dish_ids : Called("delete_dish", Done(delete_dish(db, dish_id)))

CallCreateTag(names, categories) ==
    \E name \in names, category \in categories :
        /\ db.tag_seq < MaxTagId
        /\ Called("create_tag", create_tag(db, name, category))

CallDeleteTag(tag_ids) ==
    \E tag_id \in tag_ids : Called("delete_tag", Done(delete_tag(db, tag_id)))

Initialised(st) ==
    /\ db = st.db
    /\ now = st.now
    /\ file = None

InitStorage ==
    /\ Initialised(init_db(FirstRun))
    /\ cached = None
    /\ tz = 0
    /\ running = FALSE
    /\ last = Outcome("init_db", 0, "")
    /\ procs = NoProcs

OneProfile == {CHOOSE p \in Profiles : p.notes # None}

NextStorage ==
    \/ CallAddDish(OneProfile, AddLists)
    \/ CallUpdateDish(DishIds, Profiles \ OneProfile, UpdateLists)
    \/ CallDeleteDish(DishIds)
    \/ CallCreateTag({S("é")}, OneCategory)
    \/ CallDeleteTag(TagIds)

SpecStorage == InitStorage /\ [][NextStorage]_vars

ExistingDishIds == {r.id : r \in db.dishes}

SameScalars(e, got) ==
    /\ got.contributor = e.contributor
    /\ got.dish_name = e.dish_name
    /\ got.dish_type = e.dish_type
    /\ got.allergens = e.allergens
    /\ got.notes = e.notes
    /\ got.created_at = e.created_at

SameFields(e, got) ==
    /\ SameScalars(e, got)
    /\ got.dietary_flags = e.dietary_flags
    /\ got.tag_ids = e.tag_ids

Listed(d, id) == TheOne({x \in SeqToSet(load_dishes(d)) : x.id = Some(id)})

\* What add_dish or update_dish wrote reads back as the entry, through
\* get_dish and, when listed is set, through load_dishes.
ReadsBack(e, r, listed) ==
    /\ r.err = ""
    /\ get_dish(r.db, r.id) # None
    /\ SameFields(e, get_dish(r.db, r.id)[1])
    /\ listed => SameFields(e, Listed(r.db, r.id))

NoRepeat(seq) == \A i, j \in DOMAIN seq : seq[i] = seq[j] => i = j

SameTags(e, got) ==
    /\ SameScalars(e, got)
    /\ SeqToSet(got.tag_ids) = SeqToSet(e.tag_ids)
    /\ SeqToSet(got.dietary_flags) = SeqToSet(e.dietary_flags)
    /\ NoRepeat(got.tag_ids)
    /\ NoRepeat(got.dietary_flags)

ReadsBackTags(e, r, listed) ==
    /\ r.err = ""
    /\ get_dish(r.db, r.id) # None
    /\ SameTags(e, get_dish(r.db, r.id)[1])
    /\ listed => SameTags(e, Listed(r.db, r.id))

TagsOf(d, dish_id) == {p[2] : p \in {q \in d.dish_tags : q[1] = dish_id}}

\* A dish stored from a list of three ids that repeats one.
Repeating(d, r) == Len(JsonLoads(r.dietary_flags)) = 3 /\ TagsOf(d, r.id) = {1, 2}

Elsewhere(d, dish_id) == {p \in d.dish_tags : p[1] # dish_id}

\* After a write that succeeded, the dish has exactly the tags of the list
\* and the other dishes have theirs.
Replaced(ids, r) ==
    r.err = "" =>
        /\ TagsOf(r.db, r.id) = SeqToSet(ids)
        /\ Elsewhere(r.db, r.id) = Elsewhere(db, r.id)

\* C6: after add_dish or update_dish succeeds for a dish with tag-id list L,
\* the dish is associated with exactly the ids that occur in L, whatever it
\* was associated with before and whatever L repeats, and the associations
\* of every other dish are unchanged; the write succeeds when the dish and
\* all ids of L exist.
C6_Theorem ==
    \A profile \in OneProfile, ids \in IdLists :
        /\ Replaced(ids, add_dish(db, Entry(db, profile, ids)))
        /\ AllExist(db, ids) => add_dish(db, Entry(db, profile, ids)).err = ""
        /\ \A dish_id \in DishIds :
               /\ Replaced(ids, update_dish(db, dish_id, Entry(db, profile, ids)))
               /\ AllExist(db, ids) /\ dish_id \in ExistingDishIds =>
                      update_dish(db, dish_id, Entry(db, profile, ids)).err = ""

\* A dish was updated from a list that repeats an id while another dish has
\* tags of its own.
C6_Witness ==
    /\ last = Outcome("update_dish", 0, "")
    /\ \E r \in db.dishes :
           /\ r.contributor \in {p.contributor : p \in Profiles \ OneProfile}
           /\ Repeating(db, r)
           /\ \E p \in db.dish_tags : p[1] # r.id

EqualIgnoringCase(a, b) == PyLower(a) = PyLower(b)

MustFail(name, category) ==
    \/ Strip(name) = <<>>
    \/ Strip(category) \notin SeqToSet(TAG_CATEGORY_ORDER)
    \/ \E t \in db.tags : EqualIgnoringCase(t.name, Strip(name))

Failed(r) == r.err # "" /\ r.db.tags = db.tags

AddedOne(name, category, r) ==
    /\ r.err = ""
    /\ \E t \in r.db.tags :
           /\ t \notin db.tags
           /\ r.db.tags = db.tags \cup {t}
           /\ t.name = Strip(name)
           /\ t.category = Strip(category)

\* C8 as claimed: create_tag fails and leaves the tags as they are when the
\* trimmed name is empty, the trimmed category is not one of the six, or the
\* trimmed name equals an existing tag's name ignoring letter case; otherwise
\* it adds exactly one tag with the trimmed name and category.
C8_AsClaimed ==
    \A name \in TagNameInputs, category \in TagCategoryInputs :
        IF MustFail(name, category)
        THEN Failed(create_tag(db, name, category))
        ELSE AddedOne(name, category, create_tag(db, name, category))

----------------------------------------------------------------------------
(* The associations of dishes and tags.                                    *)

DishExists(d, dish_id) == \E r \in d.dishes : r.id = dish_id
TagIdExists(d, tag_id) == \E t \in d.tags : t.id = tag_id

\* Every association joins a dish that exists and a tag that exists.
NoDangling(d) ==
    \A p \in d.dish_tags : DishExists(d, p[1]) /\ TagIdExists(d, p[2])

\* C11: in every reachable state every dish-tag association refers to a dish
\* that exists and a tag that exists; delete_dish(d) leaves no association
\* of d and delete_tag(t) leaves no association of t, and both leave every
\* other association, so the dishes that had t keep their other tags.
C11_Theorem ==
    /\ NoDangling(db)
    /\ \A dish_id \in DishIds :
           /\ NoDangling(delete_dish(db, dish_id))
           /\ delete_dish(db, dish_id).dish_tags = {p \in db.dish_tags : p[1] # dish_id}
    /\ \A tag_id \in TagIds :
           /\ NoDangling(delete_tag(db, tag_id))
           /\ delete_tag(db, tag_id).dish_tags = {p \in db.dish_tags : p[2] # tag_id}

\* A tag was deleted while a dish stored with two tags had it: the dish has
\* one tag left.
C11_Witness ==
    /\ last = Outcome("delete_tag", 0, "")
    /\ \E r \in db.dishes :
           /\ Len(JsonLoads(r.dietary_flags)) = 3
           /\ Cardinality(TagsOf(db, r.id)) = 1

----------------------------------------------------------------------------
(* The order of tag lists.                                                 *)

\* Tag a comes before tag b: by category in the display order, then by
\* position, then by name ignoring case.
DisplayBefore(a, b) ==
    \/ IndexIn(TAG_CATEGORY_ORDER, a.category) < IndexIn(TAG_CATEGORY_ORDER, b.category)
    \/ /\ a.category = b.category
       /\ \/ a.position < b.position
          \/ a.position = b.position /\ TextLess(PyLower(a.name), PyLower(b.name))

DisplayOrdered(tags) ==
    \A i \in DOMAIN tags, j \in DOMAIN tags : i < j => ~DisplayBefore(tags[j], tags[i])

RECURSIVE Flatten(_)
Flatten(groups) ==
    IF groups = <<>> THEN <<>> ELSE Head(groups)[2] \o Flatten(Tail(groups))

\* The tag created by r comes after every tag that was in its category.
CreatedLast(r) ==
    r.err = "" =>
        \A new \in r.db.tags \ db.tags, old \in db.tags :
            old.category = new.category => DisplayBefore(old, new)

\* The catalog lists are in display order.
CatalogOrdered ==
    /\ DisplayOrdered(load_tags(db))
    /\ DisplayOrdered(Flatten(load_tag_groups(db)))
    /\ Flatten(load_tag_groups(db)) = load_tags(db)
    /\ \A ids \in IdLists : DisplayOrdered(get_tags_by_ids(db, ids))
    /\ \A name \in TagNameInputs, category \in TagCategoryInputs :
           CreatedLast(create_tag(db, name, category))

\* C16 as claimed: the catalog of load_tags and load_tag_groups, the result
\* of get_tags_by_ids and the tags of every dish from get_dish and
\* load_dishes are ordered by category in the display order, then position,
\* then name ignoring case, and a tag just created comes after every tag
\* already in its category.
C16_AsClaimed ==
    /\ CatalogOrdered
    /\ \A dish_id \in ExistingDishIds : DisplayOrdered(get_dish(db, dish_id)[1].tags)
    /\ \A i \in DOMAIN load_dishes(db) : DisplayOrdered(load_dishes(db)[i].tags)

----------------------------------------------------------------------------
(* The dietary flags of a dish.                                            *)

\* Every flag of the entry names a tag that exists and that the dish has.
FlagsCurrent(d, entry) ==
    \A i \in DOMAIN entry.dietary_flags :
        \E t \in d.tags :
            /\ t.name = entry.dietary_flags[i]
            /\ <<entry.id[1], t.id>> \in d.dish_tags

\* C18 as claimed: for every dish returned by get_dish or load_dishes, every
\* name in its dietary_flags is the name of a tag that exists and is
\* associated with the dish, also when the last tag of the dish was deleted.
C18_AsClaimed ==
    /\ \A dish_id \in ExistingDishIds : FlagsCurrent(db, get_dish(db, dish_id)[1])
    /\ \A i \in DOMAIN load_dishes(db) : FlagsCurrent(db, load_dishes(db)[i])

----------------------------------------------------------------------------
(* A restart.                                                              *)

SameCatalog(d, e) ==
    /\ e.dishes = d.dishes
    /\ e.tags = d.tags
    /\ e.dish_tags = d.dish_tags

\* C19 as claimed: init_db on a database that is already initialised leaves
\* every dish row, every tag and every association as it was: deleted tags
\* are not re-created and no dish gains an association.
C19_AsClaimed == SameCatalog(db, init_db(St).db)
----------------------------------------------------------------------------
(* SpecRace: create_tag calls that run concurrently.  The SELECTs of       *)
(* create_tag run outside a transaction, so the statements of two calls    *)
(* interleave; each statement is atomic.                                   *)

\* The create_tag calls that may be in flight at once.
NumProcs == 2
Procs == 1..NumProcs

Idle == [pc |-> "idle", name |-> <<>>, category |-> <<>>, position |-> 0]

RaceNames == {S("A"), S("a"), <<"a", " ">>, S("B")}

Raised(p, err) ==
    /\ procs' = [procs EXCEPT ![p] = Idle]
    /\ last' = Outcome("create_tag", 0, err)
    /\ UNCHANGED <<db, file, cached, now, tz, running>>

\* create_tag up to its existence check.
CheckExisting(p, cleaned_name, normalized_category) ==
    IF cleaned_name = <<>> THEN Raised(p, "Tag name cannot be empty")
    ELSE IF normalized_category \notin SeqToSet(TAG_CATEGORY_ORDER)
    THEN Raised(p, "Unknown category")
    ELSE IF TagExists(db, cleaned_name) THEN Raised(p, "That tag already exists")
    ELSE /\ procs' = [procs EXCEPT ![p] = [pc |-> "position", name |-> cleaned_name,
                                           category |-> normalized_category,
                                           position |-> 0]]
         /\ UNCHANGED <<db, file, cached, now, tz, running, last>>

RaceBegin(p) ==
    /\ procs[p].pc = "idle"
    /\ db.tag_seq < MaxTagId
    /\ \E name \in RaceNames, category \in OneCategory :
           CheckExisting(p, Strip(name), Strip(category))

\* The SELECT of the largest position in the category.
RacePosition(p) ==
    /\ procs[p].pc = "position"
    /\ procs' = [procs EXCEPT ![p].pc = "insert",
                              ![p].position = NextPosition(db, procs[p].category)]
    /\ UNCHANGED <<db, file, cached, now, tz, running, last>>

Inserted(p, ins) ==
    /\ db' = ins.db
    /\ procs' = [procs EXCEPT ![p] = Idle]
    /\ last' = Outcome("create_tag", ins.db.tag_seq,
                       IF ins.ok THEN "" ELSE "IntegrityError")
    /\ UNCHANGED <<file, cached, now, tz, running>>

\* The INSERT, and the commit on leaving the with block.
RaceInsert(p) ==
    /\ procs[p].pc = "insert"
    /\ Inserted(p, InsertTag(db, procs[p].name, procs[p].category, procs[p].position))

InitRace ==
    /\ Initialised(init_db(FirstRun))
    /\ cached = None
    /\ tz = 0
    /\ running = FALSE
    /\ last = Outcome("init_db", 0, "")
    /\ procs = [p \in Procs |-> Idle]

RaceDeleteTag(tag_ids) ==
    \E tag_id \in tag_ids :
        /\ db' = delete_tag(db, tag_id)
        /\ last' = Outcome("delete_tag", 0, "")
        /\ UNCHANGED <<file, cached, now, tz, running, procs>>

NextRace ==
    \/ \E p \in Procs : RaceBegin(p)
    \/ \E p \in Procs : RacePosition(p)
    \/ \E p \in Procs : RaceInsert(p)
    \/ RaceDeleteTag(TagIds)

SpecRace == InitRace /\ [][NextRace]_vars

\* C7 as claimed: whatever tag creations, concurrent ones included, and
\* deletions have run since the default tags were seeded, no two tags have
\* names that are equal when letter case is ignored.
C7_AsClaimed ==
    \A a \in db.tags, b \in db.tags :
        a # b => ~EqualIgnoringCase(a.name, b.name)

----------------------------------------------------------------------------
(* SpecConfig: the two config sources, from a data directory that may hold *)
(* a config file or a legacy config table, with a server in any of the     *)
(* time zones, and an operator who edits or removes the file.              *)

ConfigInputs ==
    {AppConfig(<<S("Soup")>>, <<LoopbackNet>>),
     AppConfig(<<S("Main Dish"), S("Soup")>>, <<UpperNet, LoopbackNet>>)}

FileInputs == {[data |-> c, mtime |-> t] : c \in ConfigInputs, t \in (0 - MaxInitTime)..(0 - 1)}

InitConfig ==
    /\ \E legacy \in {None, Some(AppConfig(<<S("Salad")>>, <<LoopbackNet>>))} :
           db = [EmptyDb EXCEPT !.app_config = legacy]
    /\ file \in {None} \cup {Some(f) : f \in FileInputs}
    /\ cached = None
    /\ now = 0
    /\ tz \in TzOffsets
    /\ running = FALSE
    /\ last = Outcome("none", 0, "")
    /\ procs = NoProcs

\* The operator saves config.json by hand.
EditFile(configs) ==
    \E c \in configs :
        /\ now < MaxClock
        /\ file' = Some([data |-> c, mtime |-> now])
        /\ now' = now + 1
        /\ last' = Outcome("edit_file", 0, "")
        /\ UNCHANGED <<db, cached, tz, running, procs>>

\* The operator removes config.json.
RemoveFile ==
    /\ file # None
    /\ file' = None
    /\ last' = Outcome("remove_file", 0, "")
    /\ UNCHANGED <<db, cached, now, tz, running, procs>>

NextConfig ==
    \/ Startup
    \/ Stop
    \/ Home
    \/ UpdateAdminSettings({Some(Loopback)}, {<<"Soup", "\n", "Main Dish">>},
                           {LoopbackNet})
    \/ EditFile(ConfigInputs)
    \/ RemoveFile

SpecConfig == InitConfig /\ [][NextConfig]_vars

StoredEntry == load_app_config_from_db(db)

\* Both sources hold the config after the call.
InBoth(r, config) ==
    /\ r.config = config
    /\ r.st.file # None
    /\ r.st.file[1].data = config
    /\ load_app_config_from_db(r.st.db) # None
    /\ load_app_config_from_db(r.st.db)[1].config = config

NewerWins(r, f, entry) ==
    /\ f.mtime > entry.updated_at => r.config = f.data
    /\ entry.updated_at > f.mtime => r.config = entry.config
    /\ InBoth(r, r.config)

\* C1 as claimed: when load_config runs with a config in the file and in the
\* database, it returns the config of the source written strictly later (the
\* file's modification time against the latest updated_at of the rows), and
\* afterwards the file and the database both hold the config returned.
C1_AsClaimed ==
    file # None /\ StoredEntry # None =>
        NewerWins(load_config(St, tz), file[1], StoredEntry[1])

\* C2 as claimed: when the application starts with a config in exactly one
\* of the two sources, startup returns and caches that config and copies it
\* to the other source.
C2_AsClaimed ==
    ~running =>
        /\ file # None /\ StoredEntry = None =>
               InBoth(load_config(init_db(St), tz), file[1].data)
        /\ file = None /\ StoredEntry # None =>
               InBoth(load_config(init_db(St), tz), StoredEntry[1].config)

\* The half of C2 the code keeps: a database that holds config rows and no
\* file makes the database's config canonical.
C2_DatabaseOnly ==
    ~running /\ file = None /\ StoredEntry # None =>
        InBoth(load_config(init_db(St), tz), StoredEntry[1].config)

----------------------------------------------------------------------------
(* SpecSettingsRace: settings updates that run concurrently.  The handler  *)
(* is a plain def, so requests run on threads of one process; between its  *)
(* statements another request may run.  Each request submits a config of   *)
(* its own from the loopback address.                                      *)

SettingsIdle == [pc |-> "idle", config |-> DefaultConfig]

Submitted == {procs[p].config : p \in {q \in Procs : procs[q].pc # "idle"}}

\* update_admin_settings up to save_config: get_config, the access check
\* and the check of the two lists.
SettingsBegin(p, g, config) ==
    /\ _is_ip_allowed(Some(Loopback), g.config)
    /\ HasBoth(config)
    /\ db' = g.st.db
    /\ file' = g.st.file
    /\ now' = g.st.now
    /\ procs' = [procs EXCEPT ![p] = [pc |-> "file", config |-> config]]
    /\ UNCHANGED <<cached, tz, running, last>>

SettingsStart(p) ==
    /\ procs[p].pc = "idle"
    /\ \E config \in ConfigInputs \ Submitted : SettingsBegin(p, get_config(St), config)

Written(p, st, pc) ==
    /\ db' = st.db
    /\ file' = st.file
    /\ now' = st.now
    /\ procs' = [procs EXCEPT ![p].pc = pc]
    /\ UNCHANGED <<cached, tz, running, last>>

\* save_config: _write_config_to_file(config)
SettingsWriteFile(p) ==
    /\ procs[p].pc = "file"
    /\ Written(p, _write_config_to_file(St, procs[p].config), "db")

\* save_config: _save_config_to_db(config)
SettingsWriteDb(p) ==
    /\ procs[p].pc = "db"
    /\ Written(p, save_app_config_to_db(St, procs[p].config), "cache")

\* app.state.config = new_config, and the redirect.
SettingsAssign(p) ==
    /\ procs[p].pc = "cache"
    /\ cached' = Some(procs[p].config)
    /\ procs' = [procs EXCEPT ![p].pc = "done"]
    /\ last' = Outcome("update_admin_settings", 303, "")
    /\ UNCHANGED <<db, file, now, tz, running>>

AllDone == \A p \in Procs : procs[p].pc = "done"

\* A request after the updates: its get_config runs load_config.
LaterRequest(g) ==
    /\ AllDone
    /\ db' = g.st.db
    /\ file' = g.st.file
    /\ now' = g.st.now
    /\ last' = Outcome("home", 200, "")
    /\ UNCHANGED <<cached, tz, running, procs>>

\* The application after its first startup, on a server in any time zone.
AfterStartup(r) ==
    /\ db = r.st.db
    /\ file = r.st.file
    /\ now = r.st.now
    /\ cached = Some(r.config)

InitSettingsRace ==
    /\ tz \in TzOffsets
    /\ AfterStartup(load_config(init_db(FirstRun), tz))
    /\ running = TRUE
    /\ last = Outcome("startup", 0, "")
    /\ procs = [p \in Procs |-> SettingsIdle]

NextSettingsRace ==
    \/ \E p \in Procs : SettingsStart(p)
    \/ \E p \in Procs : SettingsWriteFile(p)
    \/ \E p \in Procs : SettingsWriteDb(p)
    \/ \E p \in Procs : SettingsAssign(p)
    \/ LaterRequest(get_config(St))

SpecSettingsRace == InitSettingsRace /\ [][NextSettingsRace]_vars

\* C14 as claimed: once two concurrent settings updates with different
\* configs have both finished, the config file, the database rows and the
\* cached config hold the same one of the two submitted configs, and later
\* requests keep them equal.
C14_AsClaimed ==
    AllDone =>
        /\ StoredConfig \in Submitted
        /\ file # None /\ file[1].data = StoredConfig
        /\ cached = Some(StoredConfig)

----------------------------------------------------------------------------
(* SpecFilter: _filter_dishes applied to lists of dishes and queries.      *)
(* Here text is written one character per atom, so that a query can match  *)
(* inside a word.                                                          *)

FilterDishes ==
    {DishEntry(Some(1), <<"b">>, <<"A", "b">>, <<"b", "b">>, <<>>, <<>>, <<>>, <<>>,
               None, 0),
     DishEntry(Some(2), <<"b">>, <<"b">>, <<"b", "b">>, << <<"a">>, <<"b">> >>,
               << <<"A">> >>, <<1>>, <<>>, Some(<<"a", " ", "a">>), 1),
     DishEntry(Some(3), <<"É">>, <<"b", " ", "b">>, <<"b", "b">>, <<>>, <<>>, <<>>, <<>>,
               Some(<<>>), 2)}

\* The lists of distinct dishes, in every order.
FilterLists ==
    {<<>>} \cup {<<a>> : a \in FilterDishes}
    \cup {l \in {<<a, b>> : a \in FilterDishes, b \in FilterDishes} :
              Cardinality(SeqToSet(l)) = 2}
    \cup {l \in {<<a, b, c>> : a \in FilterDishes, b \in FilterDishes,
                                c \in FilterDishes} : Cardinality(SeqToSet(l)) = 3}

FilterQueries ==
    {<<>>, <<" ">>, <<" ", " ">>, <<"a">>, <<" ", "A", " ">>, <<"a", "b">>,
     <<"A", ",", " ", "b">>, <<"a", ",", "b">>, <<"b", "b", "b">>, <<"a", " ", "a">>,
     <<"b", " ", "B">>, <<"é">>, <<"c">>}

InitFilter ==
    /\ db = EmptyDb
    /\ file = None
    /\ cached = None
    /\ now = 0
    /\ tz = 0
    /\ running = FALSE
    /\ procs = NoProcs
    /\ \E dishes \in FilterLists, query \in FilterQueries :
           last = [op |-> "query", dishes |-> dishes, query |-> query, result |-> <<>>]

Filter ==
    /\ last.op = "query"
    /\ last' = [last EXCEPT !.op = "_filter_dishes",
                            !.result = _filter_dishes(last.dishes, last.query)]
    /\ UNCHANGED <<db, file, cached, now, tz, running, procs>>

NextFilter == Filter

SpecFilter == InitFilter /\ [][NextFilter]_vars

\* The query without its leading and trailing white space.
Trimmed(q) ==
    CHOOSE t \in {SubSeq(q, i, j) : i \in 1..(Len(q) + 1), j \in 0..Len(q)} :
        /\ t # <<>> => t[1] # " " /\ t[Len(t)] # " "
        /\ \E i \in 0..(Len(q) - Len(t)) :
               /\ SubSeq(q, i + 1, i + Len(t)) = t
               /\ \A k \in DOMAIN q : k <= i \/ k > i + Len(t) => q[k] = " "

Substring(needle, hay) ==
    \E i \in 0..(Len(hay) - Len(needle)) : SubSeq(hay, i + 1, i + Len(needle)) = needle

\* The texts of a dish the search looks at.
SearchedTexts(dish) ==
    {dish.dish_name, dish.contributor, dish.dish_type, Join(dish.allergens),
     Join(dish.dietary_flags)} \cup (IF dish.notes = None THEN {} ELSE {dish.notes[1]})

QueryMatches(q, dish) ==
    \E text \in SearchedTexts(dish) : Substring(PyLower(Trimmed(q)), PyLower(text))

Filtered(dishes, q, result) ==
    IF Trimmed(q) = <<>> THEN result = dishes
    ELSE /\ result = SelectSeq(dishes, LAMBDA dish : QueryMatches(q, dish))
         /\ (\A i \in DOMAIN dishes : ~QueryMatches(q, dishes[i])) => result = <<>>

\* C15: _filter_dishes(dishes, q) returns the list unchanged when q is empty
\* or only white space; otherwise it returns, in the input order and each
\* dish once, exactly the dishes for which the trimmed, lower-cased q is a
\* substring of the lower-cased dish name, contributor, dish type, notes,
\* joined allergens or joined dietary flags, and so the empty list when no
\* dish matches.
C15_Theorem ==
    last.op = "_filter_dishes" => Filtered(last.dishes, last.query, last.result)

\* A query in upper case with white space around it kept two dishes of
\* three.
C15_Witness ==
    /\ last.op = "_filter_dishes"
    /\ last.query = <<" ", "A", " ">>
    /\ Len(last.dishes) = 3
    /\ Len(last.result) = 2

----------------------------------------------------------------------------
(* SpecListing: the list of dishes, with submissions, edits and deletes    *)
(* from the loopback address while time passes.                            *)

\* Time passes between two requests.
Pass ==
    /\ now < MaxClock
    /\ now' = now + 1
    /\ UNCHANGED <<db, file, cached, tz, running, last, procs>>

InitListing ==
    /\ tz = 0
    /\ AfterStartup(load_config(init_db(FirstRun), tz))
    /\ running = TRUE
    /\ last = Outcome("startup", 0, "")
    /\ procs = NoProcs

NextListing ==
    \/ Pass
    \/ AddSubmission(Forms, OneDishType, {<<>>, <<2, 1>>})
    \/ EditDishSubmit({Some(Loopback)}, DishIds, OneForm, {S("Main Dish")}, OneTagList)
    \/ DeleteDishAction({Some(Loopback)}, DishIds)

SpecListing == InitListing /\ [][NextListing]_vars

\* Every stored dish is listed once.
ListsAll(d, listed) ==
    /\ Len(listed) = Cardinality(d.dishes)
    /\ {listed[i].id : i \in DOMAIN listed} = {Some(r.id) : r \in d.dishes}

\* Newest first, and among dishes of one timestamp the largest id first.
NewestFirst(listed) ==
    \A i \in DOMAIN listed, j \in DOMAIN listed :
        i < j =>
            \/ listed[i].created_at > listed[j].created_at
            \/ /\ listed[i].created_at = listed[j].created_at
               /\ listed[i].id[1] > listed[j].id[1]

IdsAndTimes(listed) ==
    [i \in DOMAIN listed |-> <<listed[i].id, listed[i].created_at>>]

\* An edit that was accepted left the ids, the timestamps and the order of
\* the list as they were.
KeepsPlaces(r) ==
    r.status = 303 => IdsAndTimes(load_dishes(r.st.db)) = IdsAndTimes(load_dishes(db))

----------------------------------------------------------------------------
(* SpecDishRace: submissions and edits that run while other requests       *)
(* delete tags and dishes.  A handler reads and validates on connections   *)
(* of its own, then add_dish or update_dish writes in one transaction; a   *)
(* delete of another request may commit between the two.                   *)

DishIdle == [pc |-> "idle", op |-> "none", dish_id |-> 0, entry |-> None]

\* The handler answers before it reaches its write.
AnsweredEarly(op, r) ==
    /\ Commit(r.st)
    /\ last' = Outcome(op, r.status, r.msg)
    /\ UNCHANGED <<cached, tz, running, procs>>

\* The handler has validated its request and built the entry to write.
Validated(p, g, op, dish_id, entry) ==
    /\ Commit(g.st)
    /\ procs' = [procs EXCEPT ![p] = [pc |-> "write", op |-> op, dish_id |-> dish_id,
                                      entry |-> Some(entry)]]
    /\ UNCHANGED <<cached, tz, running, last>>

\* add_submission up to its call of add_dish.
AddChecked(p, g, form, dish_type, tag_ids, tags) ==
    IF dish_type \notin SeqToSet(g.config.dish_types)
    THEN AnsweredEarly("add_submission", Response(g.st, 400, "Unknown dish type"))
    ELSE IF Len(tags) # Len(tag_ids)
    THEN AnsweredEarly("add_submission", Response(g.st, 400, "Unknown dietary tag selected"))
    ELSE IF Strip(form.contributor) = <<>> \/ Strip(form.dish_name) = <<>>
    THEN AnsweredEarly("add_submission", Response(g.st, 500, "ValidationError"))
    ELSE Validated(p, g, "add_dish", 0,
                   DishEntry(None, Strip(form.contributor), Strip(form.dish_name),
                             dish_type, _parse_allergens(form.allergens),
                             Names(tags), Ids(tags), <<>>, CleanNotes(form.notes),
                             g.st.now))

AddValidate(p, g, form, dish_type, tag_ids) ==
    AddChecked(p, g, form, dish_type, tag_ids, get_tags_by_ids(g.st.db, tag_ids))

\* The submissions in flight that will insert a dish.
Adding == {p \in Procs : procs[p].op = "add_dish"}

AddBegin(p, forms, dish_types, tag_lists) ==
    /\ running
    /\ procs[p].pc = "idle"
    /\ db.dish_seq + Cardinality(Adding) < MaxDishId
    /\ \E form \in forms, dish_type \in dish_types, dietary_tags \in tag_lists :
           AddValidate(p, get_config(St), form, dish_type,
                       _normalize_tag_ids(dietary_tags))

\* edit_dish_submit up to its call of update_dish.
EditChecked(p, g, dish_id, dish, form, dish_type, tag_ids, tags) ==
    IF dish = None
    THEN AnsweredEarly("edit_dish_submit", Response(g.st, 404, "Dish not found"))
    ELSE IF dish_type \notin SeqToSet(g.config.dish_types)
    THEN AnsweredEarly("edit_dish_submit", Response(g.st, 400, "Unknown dish type"))
    ELSE IF Len(tags) # Len(tag_ids)
    THEN AnsweredEarly("edit_dish_submit", Response(g.st, 400, "Unknown dietary tag selected"))
    ELSE Validated(p, g, "update_dish", dish_id,
                   [dish[1] EXCEPT !.contributor = Strip(form.contributor),
                                   !.dish_name = Strip(form.dish_name),
                                   !.dish_type = dish_type,
                                   !.allergens = _parse_allergens(form.allergens),
                                   !.dietary_flags = Names(tags),
                                   !.tag_ids = Ids(tags),
                                   !.notes = CleanNotes(form.notes)])

EditValidate(p, g, client, dish_id, form, dish_type, tag_ids) ==
    IF ~_is_ip_allowed(client, g.config) THEN AnsweredEarly("edit_dish_submit", Denied(g))
    ELSE EditChecked(p, g, dish_id, _get_dish_or_404(g.st.db, dish_id), form,
                     dish_type, tag_ids, get_tags_by_ids(g.st.db, tag_ids))

EditBegin(p, clients, dish_ids, forms, dish_types, tag_lists) ==
    /\ running
    /\ procs[p].pc = "idle"
    /\ \E client \in clients, dish_id \in dish_ids, form \in forms,
          dish_type \in dish_types, dietary_tags \in tag_lists :
           EditValidate(p, get_config(St), client, dish_id, form, dish_type,
                        _normalize_tag_ids(dietary_tags))

\* The handler's write has ended: an IntegrityError is not caught, and the
\* request is answered with 500.
DishWritten(p, op, r) ==
    /\ db' = r.db
    /\ procs' = [procs EXCEPT ![p] = DishIdle]
    /\ last' = Outcome(op, IF r.err = "" THEN 303 ELSE 500, r.err)
    /\ UNCHANGED <<file, cached, now, tz, running>>

\* add_dish(entry) or update_dish(dish_id, updated), one transaction each.
DishWrite(p) ==
    /\ procs[p].pc = "write"
    /\ IF procs[p].op = "add_dish"
       THEN DishWritten(p, "add_dish", add_dish(db, procs[p].entry[1]))
       ELSE DishWritten(p, "update_dish",
                        update_dish(db, procs[p].dish_id, procs[p].entry[1]))

AddTagLists == {<<1>>}
EditTagLists == {<<>>, <<2>>}

InitDishRace ==
    /\ tz = 0
    /\ AfterStartup(load_config(init_db(FirstRun), tz))
    /\ running = TRUE
    /\ last = Outcome("startup", 0, "")
    /\ procs = [p \in Procs |-> DishIdle]

NextDishRace ==
    \/ \E p \in Procs : AddBegin(p, OneForm, OneDishType, AddTagLists)
    \/ \E p \in Procs : EditBegin(p, {Some(Loopback)}, OneDish, OneForm, OneDishType,
                                  EditTagLists)
    \/ \E p \in Procs : DishWrite(p)
    \/ DeleteTagAction({Some(Loopback)}, 1..2)
    \/ DeleteDishAction({Some(Loopback)}, OneDish)

SpecDishRace == InitDishRace /\ [][NextDishRace]_vars

DishIdsOf(d) == {r.id : r \in d.dishes}

\* The step is the write of a handler in flight.
WriteStep(p) == procs[p].pc = "write" /\ procs'[p].pc = "idle"

\* C20: add_dish and update_dish are all-or-nothing: when writing the tag
\* associations fails, as when a tag the handler validated was deleted by
\* another request before the write, no dish row is inserted or modified
\* and every association is kept; and the write of an edit whose dish was
\* deleted in the meantime does not bring the dish back.
C20_Theorem ==
    [][\A p \in Procs :
           WriteStep(p) =>
               /\ last'.msg = "IntegrityError" => db' = db
               /\ procs[p].op = "update_dish" => DishIdsOf(db') = DishIdsOf(db)
               /\ procs[p].op = "add_dish" =>
                      DishIdsOf(db') \ DishIdsOf(db) \subseteq {db.dish_seq + 1}]_vars

\* The write of an edit has just failed on a tag that was deleted after the
\* handler had validated it, and the dish still has its other association.
C20_Witness ==
    /\ last = Outcome("update_dish", 500, "IntegrityError")
    /\ \E r \in db.dishes : r.id \in OneDish /\ TagsOf(db, r.id) # {}
====
